---- MODULE Spec2Model ----
(***************************************************************************)
(* Model of WiFiBase (src/WiFiBase/WiFiBase.cpp): the known-network       *)
(* registry (addKnownNetwork / lookupKnownNetwork) and the connection      *)
(* orchestrator (startup, _connectToNetwork, _connectWait,                 *)
(* _startupAccessPoint).  The radio (WiFi) and the config portal           *)
(* (WiFiManager) are the environment: their answers are nondeterministic.  *)
(*                                                                         *)
(* One caller thread drives the object.  An API call made while the caller *)
(* is "idle" runs to its return ("returned"); startup() blocks in the poll *)
(* loop ("connectWait") and in the portal ("portal") in between.           *)
(***************************************************************************)
EXTENDS Integers, Sequences, FiniteSets

(* ---------------------------------------------------------------------- *)
(* Bounds of the model                                                     *)
(* ---------------------------------------------------------------------- *)

\* Largest configured value of MAX_KNOWN_NETWORKS that is explored (the other
\* value explored is the initial capacity).
MaxConfigured == 3

\* Longest connect timeout explored, in poll intervals of 100 ms (the other
\* timeout explored is 0).
MaxTimeoutTicks == 1

\* delay(100) in _connectWait
POLL_MS == 100

\* Initial capacity of the registry
INITIAL_ALLOC == 2

\* Reserved "not found" / "disconnected" index.
INDEX_DISCONNECTED == -1

\* Placeholder for "no argument passed" (WiFi.begin() without arguments).
NoArg == "<none>"

\* Credentials the caller and the portal user may supply.  The empty name is
\* the stored-credential sentinel the constructor seeds.
InputCreds ==
  { [ssid |-> "",  passwd |-> ""],
    [ssid |-> "A", passwd |-> "p1"],
    [ssid |-> "A", passwd |-> "p2"],
    [ssid |-> "B", passwd |-> "p1"],
    [ssid |-> "C", passwd |-> "p1"] }

InputNames == { c.ssid : c \in InputCreds }

\* Access point configurations the caller may supply.
APCreds ==
  { [ssid |-> "ap1", passwd |-> "k1"],
    [ssid |-> "ap2", passwd |-> "k2"] }

TimeoutChoices == { 0, POLL_MS * MaxTimeoutTicks }

WiFiStatuses == {"WL_DISCONNECTED", "WL_CONNECTED", "WL_CONNECT_FAILED"}

VARIABLES
  \* configuration
  MAX_KNOWN_NETWORKS,       \* compile-time ceiling, fixed per behaviour
  background, running,
  accessPointEnabled, accessPointActive, APSsid, APPasswd,
  connectionTimeoutMs,
  \* registry
  knownNetworks,            \* the initialised slots 0 .. numKnownNetworks-1
  numKnownNetworks,
  allocatedKnownNetworks,
  \* connection state
  connectedIndex,
  \* radio collaborator
  wifiStatus,               \* what WiFi.status() reports
  radioBusy,                \* a connect request is outstanding
  \* position of the caller inside the object
  pc, index, elapsed,
  \* observation of the current call: its name, arguments and result, the
  \* fields at its start, the connect requests and portal starts it made
  \* (reset when the caller goes on)
  call, pre, attempts, portalStarts,
  \* distinct names passed to addKnownNetwork so far, in first-call order
  addedNames,
  \* startup() has been called on this object
  startupInvoked

cfgVars == <<MAX_KNOWN_NETWORKS, background, running, accessPointEnabled,
             accessPointActive, APSsid, APPasswd, connectionTimeoutMs>>
regVars == <<knownNetworks, numKnownNetworks, allocatedKnownNetworks>>
radioVars == <<wifiStatus, radioBusy>>
ctlVars == <<pc, index, elapsed>>
obsVars == <<call, pre, attempts, portalStarts>>

histVars == <<addedNames, startupInvoked>>

vars == <<cfgVars, regVars, connectedIndex, radioVars, ctlVars, obsVars,
          histVars>>

(* ---------------------------------------------------------------------- *)
(* Registry: pure functions                                                *)
(* ---------------------------------------------------------------------- *)

\* Slot i (0-based) of the registry array.
Slot(nets, i) == nets[i + 1]

RECURSIVE LookupFrom(_, _, _, _)
LookupFrom(nets, num, ssid, i) ==
  IF i >= num THEN INDEX_DISCONNECTED
  ELSE IF Slot(nets, i).ssid = ssid THEN i
  ELSE LookupFrom(nets, num, ssid, i + 1)

\* Mutant: the scan starts at slot 1.
LookupSkipsFirst(nets, num, ssid) == LookupFrom(nets, num, ssid, 1)

\* lookupKnownNetwork: linear scan, first match.
LookupKnownNetworkIn(nets, num, ssid) == LookupFrom(nets, num, ssid, 0)

\* Mutant: only slot 0 is compared.
HasKnownNetworkFirstOnly(nets, num, ssid) ==
  num > 0 /\ Slot(nets, 0).ssid = ssid

HasKnownNetworkIn(nets, num, ssid) ==
  LookupKnownNetworkIn(nets, num, ssid) # INDEX_DISCONNECTED

\* Mutant: the ceiling is tested before the name is looked up.
AddKnownNetworkCeilingFirst(nets, num, alloc, max, ssid, passwd) ==
  LET same  == [ret |-> TRUE, nets |-> nets, num |-> num, alloc |-> alloc]
      entry == [ssid |-> ssid, passwd |-> passwd]
  IN IF alloc = 0
       THEN [ret |-> TRUE, nets |-> <<entry>>, num |-> 1,
             alloc |-> INITIAL_ALLOC]
     ELSE IF num = alloc /\ num >= max
       THEN [same EXCEPT !.ret = FALSE]
     ELSE IF HasKnownNetworkIn(nets, num, ssid)
       THEN same
     ELSE [ret |-> TRUE,
           nets |-> Append(SubSeq(nets, 1, num), entry),
           num |-> num + 1,
           alloc |-> IF num = alloc THEN (alloc * 2) % 65536 ELSE alloc]

\* Mutant: the storage is doubled before the ceiling is tested.
AddKnownNetworkGrowThenReject(nets, num, alloc, max, ssid, passwd) ==
  LET same  == [ret |-> TRUE, nets |-> nets, num |-> num, alloc |-> alloc]
      entry == [ssid |-> ssid, passwd |-> passwd]
      grown == IF num = alloc THEN (alloc * 2) % 65536 ELSE alloc
  IN IF alloc = 0
       THEN [ret |-> TRUE, nets |-> <<entry>>, num |-> 1,
             alloc |-> INITIAL_ALLOC]
     ELSE IF HasKnownNetworkIn(nets, num, ssid)
       THEN same
     ELSE IF num = alloc /\ num >= max
       THEN [same EXCEPT !.ret = FALSE, !.alloc = grown]
     ELSE [ret |-> TRUE,
           nets |-> Append(SubSeq(nets, 1, num), entry),
           num |-> num + 1,
           alloc |-> grown]

\* Mutant: the copy into the doubled storage leaves out the last entry.
AddKnownNetworkGrowDropsLast(nets, num, alloc, max, ssid, passwd) ==
  LET same  == [ret |-> TRUE, nets |-> nets, num |-> num, alloc |-> alloc]
      entry == [ssid |-> ssid, passwd |-> passwd]
      blank == [ssid |-> NoArg, passwd |-> NoArg]
  IN IF alloc = 0
       THEN [ret |-> TRUE, nets |-> <<entry>>, num |-> 1,
             alloc |-> INITIAL_ALLOC]
     ELSE IF HasKnownNetworkIn(nets, num, ssid)
       THEN same
     ELSE IF num = alloc /\ num >= max
       THEN [same EXCEPT !.ret = FALSE]
     ELSE [ret |-> TRUE,
           nets |-> IF num = alloc
                      THEN SubSeq(nets, 1, num - 1) \o <<blank, entry>>
                      ELSE Append(SubSeq(nets, 1, num), entry),
           num |-> num + 1,
           alloc |-> IF num = alloc THEN (alloc * 2) % 65536 ELSE alloc]

\* Mutant: the storage is doubled one append too late.
AddKnownNetworkLateGrow(nets, num, alloc, max, ssid, passwd) ==
  LET same  == [ret |-> TRUE, nets |-> nets, num |-> num, alloc |-> alloc]
      entry == [ssid |-> ssid, passwd |-> passwd]
  IN IF alloc = 0
       THEN [ret |-> TRUE, nets |-> <<entry>>, num |-> 1,
             alloc |-> INITIAL_ALLOC]
     ELSE IF HasKnownNetworkIn(nets, num, ssid)
       THEN same
     ELSE IF num > alloc /\ num >= max
       THEN [same EXCEPT !.ret = FALSE]
     ELSE [ret |-> TRUE,
           nets |-> Append(SubSeq(nets, 1, num), entry),
           num |-> num + 1,
           alloc |-> IF num > alloc THEN (alloc * 2) % 65536 ELSE alloc]

\* addKnownNetwork as a function of the registry fields: the new fields and
\* the return value.
AddKnownNetworkCode(nets, num, alloc, max, ssid, passwd) ==
  LET first == (alloc = 0)
      same  == [ret |-> TRUE, nets |-> nets, num |-> num, alloc |-> alloc]
      entry == [ssid |-> ssid, passwd |-> passwd]
  IN IF first
       THEN [ret |-> TRUE, nets |-> <<entry>>, num |-> 1,
             alloc |-> INITIAL_ALLOC]
     ELSE IF HasKnownNetworkIn(nets, num, ssid)
       THEN same
     ELSE IF num = alloc /\ num >= max
       THEN [same EXCEPT !.ret = FALSE]
     ELSE [ret |-> TRUE,
           nets |-> Append(SubSeq(nets, 1, num), entry),
           num |-> num + 1,
           alloc |-> IF num = alloc THEN (alloc * 2) % 65536 ELSE alloc]

lookupKnownNetwork(ssid) ==
  LookupKnownNetworkIn(knownNetworks, numKnownNetworks, ssid)

hasKnownNetwork(ssid) == lookupKnownNetwork(ssid) # INDEX_DISCONNECTED

connected == connectedIndex # INDEX_DISCONNECTED

(* ---------------------------------------------------------------------- *)
(* Observation records                                                     *)
(* ---------------------------------------------------------------------- *)

NoCall == [op |-> "none", ssid |-> NoArg, passwd |-> NoArg, ret |-> FALSE]

NoSnapshot == [nets |-> <<>>, num |-> 0, alloc |-> 0,
               connectedIndex |-> INDEX_DISCONNECTED,
               status |-> "WL_DISCONNECTED",
               background |-> TRUE, enabled |-> FALSE, active |-> FALSE,
               apSsid |-> NoArg, apPasswd |-> NoArg]

Snapshot == [nets |-> knownNetworks, num |-> numKnownNetworks,
             alloc |-> allocatedKnownNetworks,
             connectedIndex |-> connectedIndex,
             status |-> wifiStatus,
             background |-> background, enabled |-> accessPointEnabled,
             active |-> accessPointActive,
             apSsid |-> APSsid, apPasswd |-> APPasswd]

\* The names passed so far, extended by one more call.
Remember(names, ssid) ==
  IF \E k \in 1..Len(names) : names[k] = ssid THEN names
  ELSE Append(names, ssid)

(* ---------------------------------------------------------------------- *)
(* Construction                                                            *)
(* ---------------------------------------------------------------------- *)

\* WiFiBase(useStored): the sentinel is seeded when useStored and the radio
\* holds a stored SSID.
Init ==
  /\ MAX_KNOWN_NETWORKS \in {INITIAL_ALLOC, MaxConfigured}
  /\ background = TRUE
  /\ running = FALSE
  /\ accessPointEnabled = FALSE
  /\ accessPointActive = FALSE
  /\ APSsid = NoArg
  /\ APPasswd = NoArg
  /\ connectionTimeoutMs \in TimeoutChoices
  /\ connectedIndex = INDEX_DISCONNECTED
  /\ \E seed \in BOOLEAN :
       LET r == AddKnownNetworkCode(<<>>, 0, 0, MAX_KNOWN_NETWORKS, "", "")
       IN IF seed
            THEN /\ knownNetworks = r.nets
                 /\ numKnownNetworks = r.num
                 /\ allocatedKnownNetworks = r.alloc
                 /\ addedNames = <<"">>
            ELSE /\ knownNetworks = <<>>
                 /\ numKnownNetworks = 0
                 /\ allocatedKnownNetworks = 0
                 /\ addedNames = <<>>
  /\ wifiStatus \in {"WL_DISCONNECTED", "WL_CONNECTED"}
  /\ radioBusy = FALSE
  /\ pc = "idle"
  /\ index = 0
  /\ elapsed = 0
  /\ call = NoCall
  /\ pre = NoSnapshot
  /\ attempts = <<>>
  /\ portalStarts = <<>>
  /\ startupInvoked = FALSE

(* ---------------------------------------------------------------------- *)
(* Registry and configuration calls                                        *)
(* ---------------------------------------------------------------------- *)

Returns(op, ssid, passwd, ret) ==
  /\ pc' = "returned"
  /\ call' = [op |-> op, ssid |-> ssid, passwd |-> passwd, ret |-> ret]
  /\ pre' = Snapshot

AddKnownNetwork(c) ==
  /\ pc = "idle"
  /\ LET r == AddKnownNetworkCode(knownNetworks, numKnownNetworks,
                                  allocatedKnownNetworks, MAX_KNOWN_NETWORKS,
                                  c.ssid, c.passwd)
     IN /\ knownNetworks' = r.nets
        /\ numKnownNetworks' = r.num
        /\ allocatedKnownNetworks' = r.alloc
        /\ Returns("addKnownNetwork", c.ssid, c.passwd, r.ret)
  /\ addedNames' = Remember(addedNames, c.ssid)
  /\ UNCHANGED <<cfgVars, connectedIndex, radioVars, index, elapsed,
                 attempts, portalStarts, startupInvoked>>

\* Mutant: the access point is reconfigured although it is active, and the
\* call then reports failure.
ConfigureAccessPointOverwrites(active, enabled, apSsid, apPasswd, ssid, passwd) ==
  [ret |-> ~active, enabled |-> TRUE, apSsid |-> ssid, apPasswd |-> passwd]

\* configureAccessPoint as a function of the fields: the new fields and the
\* return value.
ConfigureAccessPointCode(active, enabled, apSsid, apPasswd, ssid, passwd) ==
  IF active
    THEN [ret |-> FALSE, enabled |-> enabled,
          apSsid |-> apSsid, apPasswd |-> apPasswd]
    ELSE [ret |-> TRUE, enabled |-> TRUE,
          apSsid |-> ssid, apPasswd |-> passwd]

ConfigureAccessPoint(c) ==
  /\ pc = "idle"
  /\ LET r == ConfigureAccessPointCode(accessPointActive, accessPointEnabled,
                                       APSsid, APPasswd, c.ssid, c.passwd)
     IN /\ APSsid' = r.apSsid
        /\ APPasswd' = r.apPasswd
        /\ accessPointEnabled' = r.enabled
        /\ Returns("configureAccessPoint", c.ssid, c.passwd, r.ret)
  /\ UNCHANGED <<MAX_KNOWN_NETWORKS, background, running, accessPointActive,
                 connectionTimeoutMs, regVars, connectedIndex, radioVars,
                 index, elapsed, attempts, portalStarts, histVars>>

\* _shutdownAccessPoint: unimplemented, reports failure.
ShutdownAccessPoint == FALSE

\* Mutant: the flag is left as it was.
DisableAccessPointKeepsFlag(active, enabled) ==
  [ret |-> ~(active /\ ~ShutdownAccessPoint), enabled |-> enabled]

\* disableAccessPoint as a function of the fields: the new flag and the
\* return value.
DisableAccessPointCode(active, enabled) ==
  IF active /\ ~ShutdownAccessPoint
    THEN [ret |-> FALSE, enabled |-> enabled]
    ELSE [ret |-> TRUE, enabled |-> FALSE]

DisableAccessPoint ==
  /\ pc = "idle"
  /\ LET r == DisableAccessPointCode(accessPointActive, accessPointEnabled)
     IN /\ accessPointEnabled' = r.enabled
        /\ Returns("disableAccessPoint", NoArg, NoArg, r.ret)
  /\ UNCHANGED <<MAX_KNOWN_NETWORKS, background, running, accessPointActive,
                 APSsid, APPasswd, connectionTimeoutMs, regVars,
                 connectedIndex, radioVars, index, elapsed, attempts,
                 portalStarts, histVars>>

bool(b) == IF b THEN "true" ELSE "false"

ConfigBackground(b) ==
  /\ pc = "idle"
  /\ IF running
       THEN /\ Returns("configBackground", bool(b), NoArg, FALSE)
            /\ UNCHANGED background
       ELSE /\ background' = b
            /\ Returns("configBackground", bool(b), NoArg, TRUE)
  /\ UNCHANGED <<MAX_KNOWN_NETWORKS, running, accessPointEnabled,
                 accessPointActive, APSsid, APPasswd, connectionTimeoutMs,
                 regVars, connectedIndex, radioVars, index, elapsed, attempts,
                 portalStarts, histVars>>

SetConnectTimeoutMs(ms) ==
  /\ pc = "idle"
  /\ connectionTimeoutMs' = ms
  /\ Returns("setConnectTimeoutMs", NoArg, NoArg, TRUE)
  /\ UNCHANGED <<MAX_KNOWN_NETWORKS, background, running, accessPointEnabled,
                 accessPointActive, APSsid, APPasswd, regVars, connectedIndex,
                 radioVars, index, elapsed, attempts, portalStarts,
                 histVars>>

(* ---------------------------------------------------------------------- *)
(* startup(): _connectToNetwork, _connectWait, _startupAccessPoint          *)
(* ---------------------------------------------------------------------- *)

\* _setConnected(uint8_t index)
SetConnected(i) == i % 256

StartupCall(ssid, passwd, ret) ==
  [op |-> "startup", ssid |-> ssid, passwd |-> passwd, ret |-> ret]

\* The last attempt of atts with its outcome filled in.
Mark(atts, outcome) ==
  [atts EXCEPT ![Len(atts)].outcome = outcome]

\* WiFi.begin() or WiFi.begin(ssid, passwd) for entry i, then the first
\* statement of _connectWait (start = millis()).  busy: an earlier request
\* is still outstanding in the radio when this one is issued.
BeginAttempt(atts, i, explicit, busy) ==
  /\ pc' = "connectWait"
  /\ index' = i
  /\ elapsed' = 0
  /\ radioBusy' = TRUE
  /\ attempts' = Append(atts,
       [index |-> i, explicit |-> explicit,
        ssid |-> IF explicit THEN Slot(knownNetworks, i).ssid ELSE NoArg,
        passwd |-> IF explicit THEN Slot(knownNetworks, i).passwd ELSE NoArg,
        outcome |-> "pending", overlap |-> busy])
  /\ UNCHANGED <<portalStarts, call, connectedIndex>>

\* Mutant: the portal is started whether or not the access point is enabled.
UseAccessPointAlways == TRUE

\* startup(): the access point is used when it is enabled.
UseAccessPoint == accessPointEnabled

\* _connectToNetwork found nothing: _setDisconnected, return false to
\* startup(), which starts the config portal or gives up.
Fallback(atts, i, busy) ==
  /\ connectedIndex' = INDEX_DISCONNECTED
  /\ attempts' = atts
  /\ index' = i
  /\ elapsed' = elapsed
  /\ radioBusy' = busy
  /\ IF UseAccessPoint
       THEN /\ pc' = "portal"
            /\ portalStarts' =
                 Append(portalStarts, [ssid |-> APSsid, passwd |-> APPasswd])
            /\ call' = call
       ELSE /\ pc' = "returned"
            /\ call' = StartupCall(NoArg, NoArg, FALSE)
            /\ portalStarts' = portalStarts

\* Mutant: the loop steps over an entry.
NextIndexSkips(i) == i + 2

\* The index the for loop goes on with after entry i.
NextIndex(i) == i + 1

\* Mutant: the loop gives up instead of trying entry i.
ContinueLoopGivesUp(atts, i, busy) == Fallback(atts, i, busy)

\* The for loop of _connectToNetwork, entered with index = i.
ContinueLoop(atts, i, busy) ==
  IF i < numKnownNetworks
    THEN BeginAttempt(atts, i, TRUE, busy)
    ELSE Fallback(atts, i, busy)

\* _connectWait returned true: _setConnected(index), return true.
Succeed(atts) ==
  /\ connectedIndex' = SetConnected(index)
  /\ attempts' = atts
  /\ pc' = "returned"
  /\ call' = StartupCall(NoArg, NoArg, TRUE)
  /\ radioBusy' = FALSE
  /\ UNCHANGED <<index, elapsed, portalStarts>>

\* Entry 0 stands for the credential stored in the radio.
IsStoredSentinel(nets) == Slot(nets, 0).ssid = ""

\* Mutant: the radio's link is not looked at.
AlreadyConnectedNever == FALSE

\* _connectToNetwork: WiFi.status() == WL_CONNECTED at its start.
AlreadyConnected == wifiStatus = "WL_CONNECTED"

\* startup() up to the first blocking point.
StartupBegin ==
  /\ pc = "idle"
  /\ pre' = Snapshot
  /\ IF AlreadyConnected
       THEN /\ pc' = "returned"
            /\ call' = StartupCall(NoArg, NoArg, TRUE)
            /\ UNCHANGED <<index, elapsed, radioBusy, attempts, portalStarts,
                           connectedIndex>>
     ELSE IF numKnownNetworks # 0
       THEN IF IsStoredSentinel(knownNetworks)
              THEN BeginAttempt(<<>>, 0, FALSE, radioBusy)
              ELSE ContinueLoop(<<>>, 0, radioBusy)
     ELSE Fallback(<<>>, 0, radioBusy)
  /\ startupInvoked' = TRUE
  /\ UNCHANGED <<cfgVars, regVars, wifiStatus, addedNames>>

\* Mutant: the attempt is given up without telling the radio.
TimeoutLeavesRequest(busy) == busy

\* esp_wifi_disconnect() on timeout: the outstanding request is cancelled.
TimeoutAbort(busy) == FALSE

\* Mutant: the attempt is given up when the timeout is reached.
TimedOutAtLimit(e, t) == e >= t

\* millis() - start > _connectionTimeoutMs
TimedOut(e, t) == e > t

\* One round of the loop of _connectWait: the status is read, and the
\* attempt ends or the caller sleeps for POLL_MS.
ConnectPoll ==
  /\ pc = "connectWait"
  /\ \E st \in WiFiStatuses :
       IF st = "WL_CONNECTED"
         THEN /\ wifiStatus' = st
              /\ Succeed(Mark(attempts, "connected"))
       ELSE IF st = "WL_CONNECT_FAILED"
         THEN /\ wifiStatus' = st
              /\ ContinueLoop(Mark(attempts, "failed"), NextIndex(index),
                              FALSE)
       ELSE IF TimedOut(elapsed, connectionTimeoutMs)
         THEN /\ wifiStatus' = st
              /\ ContinueLoop(Mark(attempts, "timeout"), NextIndex(index),
                              TimeoutAbort(radioBusy))
       ELSE /\ wifiStatus' = st
            /\ elapsed' = elapsed + POLL_MS
            /\ UNCHANGED <<pc, index, radioBusy, attempts, portalStarts, call,
                           connectedIndex>>
  /\ UNCHANGED <<cfgVars, regVars, pre, histVars>>

\* Mutant: the index handed to _setConnected after an append is the count.
FoldLearnedPastEnd(nets, num, alloc, max, ssid, passwd) ==
  LET found == LookupKnownNetworkIn(nets, num, ssid)
      r == AddKnownNetworkCode(nets, num, alloc, max, ssid, passwd)
  IN IF found = INDEX_DISCONNECTED
       THEN [nets |-> r.nets, num |-> r.num, alloc |-> r.alloc,
             index |-> r.num, added |-> TRUE]
       ELSE [nets |-> nets, num |-> num, alloc |-> alloc,
             index |-> found, added |-> FALSE]

\* _startupAccessPoint after the portal gave (ssid, passwd): the registry
\* fields and the index handed to _setConnected.
FoldLearned(nets, num, alloc, max, ssid, passwd) ==
  LET found == LookupKnownNetworkIn(nets, num, ssid)
      r == AddKnownNetworkCode(nets, num, alloc, max, ssid, passwd)
  IN IF found = INDEX_DISCONNECTED
       THEN [nets |-> r.nets, num |-> r.num, alloc |-> r.alloc,
             index |-> r.num - 1, added |-> TRUE]
       ELSE [nets |-> nets, num |-> num, alloc |-> alloc,
             index |-> found, added |-> FALSE]

PortalCreds == { c \in InputCreds : c.ssid # "" }

\* startConfigPortal returns: it failed, or the user's network is joined.
PortalResolve ==
  /\ pc = "portal"
  /\ \/ /\ call' = StartupCall(NoArg, NoArg, FALSE)
        /\ UNCHANGED <<regVars, connectedIndex, wifiStatus, addedNames>>
     \/ \E c \in PortalCreds :
          LET f == FoldLearned(knownNetworks, numKnownNetworks,
                               allocatedKnownNetworks, MAX_KNOWN_NETWORKS,
                               c.ssid, c.passwd)
          IN /\ knownNetworks' = f.nets
             /\ numKnownNetworks' = f.num
             /\ allocatedKnownNetworks' = f.alloc
             /\ connectedIndex' = SetConnected(f.index)
             /\ addedNames' = IF f.added THEN Remember(addedNames, c.ssid)
                              ELSE addedNames
             /\ wifiStatus' = "WL_CONNECTED"
             /\ call' = StartupCall(c.ssid, c.passwd, TRUE)
  /\ pc' = "returned"
  /\ UNCHANGED <<cfgVars, radioBusy, index, elapsed, pre, attempts,
                 portalStarts, startupInvoked>>

\* The radio gains or loses its link on its own while the caller is away.
RadioLinkChange ==
  /\ pc = "idle"
  /\ wifiStatus' \in {"WL_CONNECTED", "WL_DISCONNECTED"} \ {wifiStatus}
  /\ UNCHANGED <<cfgVars, regVars, connectedIndex, radioBusy, ctlVars,
                 obsVars, histVars>>

\* The caller takes the return value and goes on.  The loop index and the
\* wait's clock are locals of _connectToNetwork and _connectWait: they end
\* with the call.
Return ==
  /\ pc = "returned"
  /\ pc' = "idle"
  /\ call' = NoCall
  /\ pre' = NoSnapshot
  /\ attempts' = <<>>
  /\ portalStarts' = <<>>
  /\ index' = 0
  /\ elapsed' = 0
  /\ UNCHANGED <<cfgVars, regVars, connectedIndex, radioVars, histVars>>

Next ==
  \/ \E c \in InputCreds : AddKnownNetwork(c)
  \/ \E c \in APCreds : ConfigureAccessPoint(c)
  \/ DisableAccessPoint
  \/ \E b \in BOOLEAN : ConfigBackground(b)
  \/ \E ms \in TimeoutChoices : SetConnectTimeoutMs(ms)
  \/ StartupBegin
  \/ ConnectPoll
  \/ PortalResolve
  \/ RadioLinkChange
  \/ Return

Spec == Init /\ [][Next]_vars

(* ---------------------------------------------------------------------- *)
(* Properties                                                              *)
(* ---------------------------------------------------------------------- *)

StartupReturned == pc = "returned" /\ call.op = "startup"

AddReturned == pc = "returned" /\ call.op = "addKnownNetwork"

\* The portal was started in this startup() and reported success.
PortalSucceeded == StartupReturned /\ portalStarts # <<>> /\ call.ret

KnownIn(nets, ssid) == \E k \in 1..Len(nets) : nets[k].ssid = ssid

Unsuccessful(a) == a.outcome \in {"failed", "timeout"}

\* C1: when startup() returns, it returned true exactly if connected() is
\* true, whatever the registry, the configuration, the earlier calls and
\* the radio's state at the call.
C1_StartupTrueIffConnected ==
  StartupReturned => (call.ret <=> connected)

\* C2: within one startup() the k-th connect request is for entry k-1, the
\* entry as stored; only the last request can have succeeded, so that no
\* entry after a successful one is tried; a successful request ends
\* startup() with true, without the portal, and the connected index is the
\* index of that entry.
C2_PriorityOrder ==
  /\ \A k \in 1..Len(attempts) :
       /\ attempts[k].index = k - 1
       /\ k - 1 < numKnownNetworks
       /\ attempts[k].explicit =>
            /\ attempts[k].ssid = Slot(knownNetworks, k - 1).ssid
            /\ attempts[k].passwd = Slot(knownNetworks, k - 1).passwd
       /\ k < Len(attempts) => Unsuccessful(attempts[k])
       /\ attempts[k].outcome = "connected" =>
            /\ StartupReturned
            /\ call.ret
            /\ connectedIndex = attempts[k].index
            /\ portalStarts = <<>>
  /\ (StartupReturned /\ call.ret /\ attempts # <<>> /\ portalStarts = <<>>)
       => attempts[Len(attempts)].outcome = "connected"

C2_Witness ==
  /\ StartupReturned
  /\ call.ret
  /\ numKnownNetworks = 3
  /\ Len(attempts) = 2
  /\ attempts[1].outcome = "failed"
  /\ attempts[2].outcome = "connected"
  /\ connectedIndex = 1

\* C3: when the portal resolved successfully, on return of startup() the
\* registry holds the learned name and the connected index is the position
\* of the entry with that name.
C3_LearnedIsConnectedEntry ==
  PortalSucceeded =>
    /\ KnownIn(knownNetworks, call.ssid)
    /\ connectedIndex \in 0..(numKnownNetworks - 1)
    /\ Slot(knownNetworks, connectedIndex).ssid = call.ssid

\* C4: in every reachable state no two registry entries have the same name.
C4_NoDuplicateNames ==
  \A i, j \in 1..Len(knownNetworks) :
    i # j => knownNetworks[i].ssid # knownNetworks[j].ssid

\* The portal gave a name the registry already held, beside another entry.
C4_Witness ==
  /\ PortalSucceeded
  /\ KnownIn(pre.nets, call.ssid)
  /\ numKnownNetworks >= 2

\* C5: an add of a name not yet in the registry returns true exactly while
\* fewer than MAX_KNOWN_NETWORKS entries are stored, and the entry count
\* never exceeds MAX_KNOWN_NETWORKS.
C5_CeilingIsMaxKnownNetworks ==
  /\ numKnownNetworks <= MAX_KNOWN_NETWORKS
  /\ (AddReturned /\ ~KnownIn(pre.nets, call.ssid))
       => (call.ret <=> pre.num < MAX_KNOWN_NETWORKS)

\* C6: as long as at most MAX_KNOWN_NETWORKS distinct names were passed to
\* addKnownNetwork, the entry count is the number of distinct names passed,
\* lookupKnownNetwork finds each of them at the position of its first call,
\* and finds no other name.
C6_CountAndPositions ==
  Len(addedNames) <= MAX_KNOWN_NETWORKS =>
    /\ numKnownNetworks = Len(addedNames)
    /\ \A k \in 1..Len(addedNames) :
         lookupKnownNetwork(addedNames[k]) = k - 1
    /\ \A n \in InputNames :
         (~\E k \in 1..Len(addedNames) : addedNames[k] = n)
           => lookupKnownNetwork(n) = INDEX_DISCONNECTED

\* The first name was passed again after three distinct names.
C6_Witness ==
  /\ AddReturned
  /\ Len(addedNames) = 3
  /\ Len(addedNames) <= MAX_KNOWN_NETWORKS
  /\ addedNames[1] = call.ssid

\* C7: adding a name the registry already holds returns true and leaves
\* the entry count, the order and every stored pair as they were.
C7_ReAddChangesNothing ==
  (AddReturned /\ KnownIn(pre.nets, call.ssid)) =>
    /\ call.ret
    /\ numKnownNetworks = pre.num
    /\ knownNetworks = pre.nets

\* A full registry, and a secret other than the stored one.
C7_Witness ==
  /\ AddReturned
  /\ pre.num = pre.alloc
  /\ pre.num >= MAX_KNOWN_NETWORKS
  /\ \E k \in 1..Len(pre.nets) :
       /\ pre.nets[k].ssid = call.ssid
       /\ pre.nets[k].passwd # call.passwd

\* C8: an addKnownNetwork that returns false leaves the entry count, the
\* capacity, every entry and the connected index as they were; this holds
\* of a call that returned and of any call that could be made now.
C8_RejectedAddChangesNothing ==
  /\ (AddReturned /\ ~call.ret) =>
       /\ numKnownNetworks = pre.num
       /\ allocatedKnownNetworks = pre.alloc
       /\ knownNetworks = pre.nets
       /\ connectedIndex = pre.connectedIndex
  /\ \A c \in InputCreds :
       LET r == AddKnownNetworkCode(knownNetworks, numKnownNetworks,
                                    allocatedKnownNetworks,
                                    MAX_KNOWN_NETWORKS, c.ssid, c.passwd)
       IN ~r.ret =>
            /\ r.num = numKnownNetworks
            /\ r.alloc = allocatedKnownNetworks
            /\ r.nets = knownNetworks

C8_Witness ==
  /\ AddReturned
  /\ ~call.ret
  /\ connectedIndex = 1

\* C9: the radio is never asked to connect with an empty name, and when
\* the registry holds the empty-name entry, at whatever index, the first
\* connect request of a startup() is the one without arguments.
C9_SentinelFirstAndNative ==
  /\ \A k \in 1..Len(attempts) :
       attempts[k].explicit => attempts[k].ssid # ""
  /\ (attempts # <<>> /\ KnownIn(knownNetworks, ""))
       => ~attempts[1].explicit

\* Every entry the registry held at the call was tried, none with success.
Exhausted ==
  /\ pre.status # "WL_CONNECTED"
  /\ Len(attempts) = pre.num
  /\ \A k \in 1..Len(attempts) :
       attempts[k].index = k - 1 /\ Unsuccessful(attempts[k])

\* C10: the portal is started at most once per startup(), only with the
\* access point enabled, only after every registry entry was tried without
\* success (or with an empty registry), and with the configured AP name and
\* secret; with the access point disabled, exhaustion makes startup()
\* return false and the portal is never started.
C10_PortalOnlyAfterExhaustion ==
  /\ Len(portalStarts) <= 1
  /\ portalStarts # <<>> =>
       /\ accessPointEnabled
       /\ Exhausted
       /\ portalStarts[1] = [ssid |-> APSsid, passwd |-> APPasswd]
  /\ pc = "portal" => Len(portalStarts) = 1
  /\ (StartupReturned /\ ~accessPointEnabled /\ Exhausted)
       => (~call.ret /\ portalStarts = <<>>)

C10_Witness ==
  /\ pc = "portal"
  /\ Len(attempts) = 2
  /\ attempts[1].outcome = "timeout"
  /\ attempts[2].outcome = "failed"

\* C11: a connect request is never issued while an earlier request is
\* outstanding in the radio: a request ends by reported success, by
\* reported failure, or by timeout with the radio told to abort; while
\* startup() waits exactly one request is outstanding, the last one, and
\* none is when the portal is started or startup() returns.
C11_OneOutstandingRequest ==
  /\ \A k \in 1..Len(attempts) :
       /\ ~attempts[k].overlap
       /\ k < Len(attempts) =>
            attempts[k].outcome \in {"failed", "timeout"}
  /\ pc = "connectWait" =>
       /\ radioBusy
       /\ attempts # <<>>
       /\ attempts[Len(attempts)].outcome = "pending"
  /\ (pc = "portal" \/ StartupReturned) =>
       /\ ~radioBusy
       /\ \A k \in 1..Len(attempts) :
            attempts[k].outcome \in {"connected", "failed", "timeout"}

\* A request issued after the one before it timed out.
C11_Witness ==
  /\ pc = "connectWait"
  /\ Len(attempts) = 2
  /\ attempts[1].outcome = "timeout"

\* The clock advances through the poll loop and the portal call returns.
LiveSpec == Spec /\ WF_vars(ConnectPoll) /\ WF_vars(PortalResolve)

\* While startup() waits, the elapsed time is a whole number of sleeps and
\* no earlier poll of this attempt was past the timeout.
PollClock ==
  pc = "connectWait" =>
    /\ elapsed % POLL_MS = 0
    /\ elapsed - POLL_MS <= connectionTimeoutMs

\* One round of the poll loop, for the attempt that is pending.
PollStep ==
  pc = "connectWait" =>
    LET cur == Len(attempts)
        T == connectionTimeoutMs
    IN /\ attempts'[cur].outcome = "pending" =>
            /\ elapsed <= T
            /\ elapsed' = elapsed + POLL_MS
            /\ pc' = "connectWait"
            /\ attempts' = attempts
       /\ elapsed > T => attempts'[cur].outcome # "pending"
       /\ attempts'[cur].outcome = "timeout" =>
            /\ elapsed > T
            /\ elapsed <= T + POLL_MS
            /\ IF index + 1 < numKnownNetworks
                 THEN /\ pc' = "connectWait"
                      /\ index' = index + 1
                      /\ elapsed' = 0
                      /\ Len(attempts') = cur + 1
                 ELSE pc' \in {"portal", "returned"}

\* C12: startup() terminates when the clock advances and the portal call
\* returns; an attempt that stays unresolved is polled once per sleep of
\* POLL_MS, and is given up at the first poll whose elapsed time is above
\* connectTimeoutMs, that is at an elapsed time in
\* (connectTimeoutMs, connectTimeoutMs + POLL_MS], and the next candidate
\* is taken.
C12_TerminatesWithBoundedWait ==
  /\ []PollClock
  /\ [][PollStep]_vars
  /\ (pc \in {"connectWait", "portal"}) ~> StartupReturned

\* Two attempts timed out under the longest timeout, and startup() ended.
C12_Witness ==
  /\ StartupReturned
  /\ connectionTimeoutMs = POLL_MS * MaxTimeoutTicks
  /\ Len(attempts) >= 2
  /\ attempts[1].outcome = "timeout"
  /\ attempts[2].outcome = "timeout"

\* C13: startup() returns false only when every entry the registry held
\* got one connect request in this call and each failed or timed out, and
\* the access point is disabled or the portal was started and failed; no
\* entry gets two requests in one call, and a call that ends after an
\* unsuccessful request has tried every entry.
C13_FalseOnlyOnExhaustion ==
  /\ (StartupReturned /\ ~call.ret) =>
       /\ Exhausted
       /\ IF accessPointEnabled
            THEN Len(portalStarts) = 1
            ELSE portalStarts = <<>>
  /\ \A j, k \in 1..Len(attempts) :
       j # k => attempts[j].index # attempts[k].index
  /\ (StartupReturned /\ attempts # <<>>
        /\ Unsuccessful(attempts[Len(attempts)]))
       => Len(attempts) = pre.num

\* Three entries failed and the portal failed too.
C13_Witness ==
  /\ StartupReturned
  /\ ~call.ret
  /\ Len(attempts) = 3
  /\ Len(portalStarts) = 1

\* C14: a configBackground(b) made after startup() was called returns
\* false and leaves the background mode as it was; one made before the
\* first startup() returns true and sets the mode to b.
C14_BackgroundRejectedOnceStarted ==
  (pc = "returned" /\ call.op = "configBackground") =>
    IF startupInvoked
      THEN ~call.ret /\ background = pre.background
      ELSE call.ret /\ bool(background) = call.ssid

\* What the claim says of configureAccessPoint(c), given the fields before
\* the call (active, enabled, apSsid, apPasswd) and its result r.
ConfigureAsClaimed(active, enabled, apSsid, apPasswd, c, r) ==
  IF active
    THEN /\ ~r.ret
         /\ r.apSsid = apSsid
         /\ r.apPasswd = apPasswd
         /\ r.enabled = enabled
    ELSE /\ r.ret
         /\ r.apSsid = c.ssid
         /\ r.apPasswd = c.passwd
         /\ r.enabled

\* C15: configureAccessPoint(name, secret) with the access point active
\* returns false and leaves AP name, AP secret and the enabled flag as they
\* were; with no access point active it returns true, stores name and
\* secret and enables the access point.  This holds of a call that
\* returned, and of the call made from the current fields with the access
\* point active or not.
C15_ConfigureAccessPoint ==
  /\ (pc = "returned" /\ call.op = "configureAccessPoint") =>
       ConfigureAsClaimed(pre.active, pre.enabled, pre.apSsid, pre.apPasswd,
                          [ssid |-> call.ssid, passwd |-> call.passwd],
                          [ret |-> call.ret, enabled |-> accessPointEnabled,
                           apSsid |-> APSsid, apPasswd |-> APPasswd])
  /\ \A active \in BOOLEAN, c \in APCreds :
       ConfigureAsClaimed(active, accessPointEnabled, APSsid, APPasswd, c,
                          ConfigureAccessPointCode(active, accessPointEnabled,
                                                   APSsid, APPasswd,
                                                   c.ssid, c.passwd))

\* A disabled access point with another name is configured again.
C15_Witness ==
  /\ pc = "returned"
  /\ call.op = "configureAccessPoint"
  /\ call.ret
  /\ ~pre.enabled
  /\ pre.apSsid = "ap1"
  /\ APSsid = "ap2"
  /\ accessPointEnabled

\* What the claim says of disableAccessPoint(), given the fields before the
\* call and its result r.
DisableAsClaimed(active, enabled, r) ==
  IF active /\ ~ShutdownAccessPoint
    THEN ~r.ret /\ r.enabled = enabled
    ELSE r.ret /\ ~r.enabled

\* C16: disableAccessPoint() returns false and leaves the access point
\* enabled exactly when an access point is active and its teardown fails,
\* and otherwise returns true and clears the flag (of a call that returned,
\* and of the call made from the current fields with the access point
\* active or not); while the flag is clear no startup() starts the portal
\* and one that exhausts the registry returns false; the flag is set again
\* only by a configureAccessPoint that returns true.
C16_DisableAccessPoint ==
  [][ /\ (pc' = "returned" /\ call'.op = "disableAccessPoint") =>
           DisableAsClaimed(pre'.active, pre'.enabled,
                            [ret |-> call'.ret,
                             enabled |-> accessPointEnabled'])
      /\ \A active \in BOOLEAN :
           DisableAsClaimed(active, accessPointEnabled,
                            DisableAccessPointCode(active,
                                                   accessPointEnabled))
      /\ ~accessPointEnabled' =>
           /\ pc' # "portal"
           /\ portalStarts' = <<>>
           /\ (pc' = "returned" /\ call'.op = "startup" /\ Exhausted')
                => ~call'.ret
      /\ (~accessPointEnabled /\ accessPointEnabled') =>
           /\ pc' = "returned"
           /\ call'.op = "configureAccessPoint"
           /\ call'.ret
    ]_vars

\* After a disable, a startup() with an entry to try returned false.
C16_Witness ==
  /\ StartupReturned
  /\ ~call.ret
  /\ ~accessPointEnabled
  /\ APSsid # NoArg
  /\ attempts # <<>>

\* The first num entries of the storage, in order.
Entries(nets, num) == SubSeq(nets, 1, num)

IsPrefixOf(s, t) ==
  /\ Len(s) <= Len(t)
  /\ \A i \in 1..Len(s) : s[i] = t[i]

\* The capacity is kept, or doubled, or set to the initial 2 from 0.
GrownFrom(before, after) ==
  \/ after = before
  \/ before = 0 /\ after = 2
  \/ before > 0 /\ after = 2 * before

\* C17: the registry is append-only.  From the start of any operation
\* (addKnownNetwork, startup() with its portal fold, the configuration
\* calls) to any later point of it, the entries before are a prefix of the
\* entries now, and the capacity is the same, doubled, or 2 from nothing;
\* the same holds of any addKnownNetwork the caller can make next.
C17_AppendOnly ==
  /\ pc # "idle" =>
       /\ IsPrefixOf(Entries(pre.nets, pre.num),
                     Entries(knownNetworks, numKnownNetworks))
       /\ GrownFrom(pre.alloc, allocatedKnownNetworks)
  /\ pc = "idle" => \A c \in InputCreds :
       LET r == AddKnownNetworkCode(knownNetworks, numKnownNetworks,
                                    allocatedKnownNetworks,
                                    MAX_KNOWN_NETWORKS, c.ssid, c.passwd)
       IN /\ IsPrefixOf(Entries(knownNetworks, numKnownNetworks),
                        Entries(r.nets, r.num))
          /\ GrownFrom(allocatedKnownNetworks, r.alloc)

\* An append that doubled the storage from 2 to 4.
C17_Witness ==
  /\ AddReturned
  /\ call.ret
  /\ pre.num = 2
  /\ pre.alloc = 2
  /\ numKnownNetworks = 3
  /\ allocatedKnownNetworks = 4

\* The states inside a startup() call and at its return.
InStartup ==
  \/ pc \in {"connectWait", "portal"}
  \/ pc = "returned" /\ call.op = "startup"

\* C18: the connected index is always the disconnected sentinel or a
\* position below the entry count, and only startup() changes it.
C18_ConnectedIndexValid ==
  [][ /\ \/ connectedIndex' = INDEX_DISCONNECTED
         \/ connectedIndex' \in 0..(numKnownNetworks' - 1)
      /\ connectedIndex' # connectedIndex => InStartup'
    ]_vars

\* The portal's network was appended and is the connected entry.
C18_Witness ==
  /\ PortalSucceeded
  /\ numKnownNetworks = pre.num + 1
  /\ connectedIndex = numKnownNetworks - 1

RECURSIVE IsTwoTimesPowerOfTwo(_)
IsTwoTimesPowerOfTwo(n) ==
  \/ n = 2
  \/ n > 2 /\ n % 2 = 0 /\ IsTwoTimesPowerOfTwo(n \div 2)

\* C19: the entry count never exceeds the capacity, the capacity is 0 or 2
\* times a power of two, and an append (by an addKnownNetwork the caller
\* can make next, or by the fold of a portal that is open) writes a slot
\* below the capacity it has at the write.
C19_WithinCapacity ==
  /\ numKnownNetworks <= allocatedKnownNetworks
  /\ allocatedKnownNetworks = 0 \/ IsTwoTimesPowerOfTwo(allocatedKnownNetworks)
  /\ pc = "idle" => \A c \in InputCreds :
       LET r == AddKnownNetworkCode(knownNetworks, numKnownNetworks,
                                    allocatedKnownNetworks,
                                    MAX_KNOWN_NETWORKS, c.ssid, c.passwd)
       IN r.num # numKnownNetworks =>
            /\ r.num = numKnownNetworks + 1
            /\ numKnownNetworks < r.alloc
  /\ pc = "portal" => \A c \in PortalCreds :
       LET f == FoldLearned(knownNetworks, numKnownNetworks,
                            allocatedKnownNetworks, MAX_KNOWN_NETWORKS,
                            c.ssid, c.passwd)
       IN f.num # numKnownNetworks =>
            /\ f.num = numKnownNetworks + 1
            /\ numKnownNetworks < f.alloc

\* The doubled storage is full.
C19_Witness ==
  /\ pc = "returned"
  /\ call.op \in {"addKnownNetwork", "startup"}
  /\ numKnownNetworks = pre.num + 1
  /\ numKnownNetworks = allocatedKnownNetworks
  /\ allocatedKnownNetworks = 4

\* C20: a startup() called while the radio reports a live connection
\* returns true at once: no connect request, no portal, the connected index
\* and the registry as they were.
C20_AlreadyConnectedReturnsAtOnce ==
  (pc # "idle" /\ pre.status = "WL_CONNECTED"
     /\ (pc = "returned" => call.op = "startup")) =>
    /\ pc = "returned"
    /\ call.ret
    /\ attempts = <<>>
    /\ portalStarts = <<>>
    /\ connectedIndex = pre.connectedIndex
    /\ knownNetworks = pre.nets
    /\ numKnownNetworks = pre.num
    /\ allocatedKnownNetworks = pre.alloc

\* startup() with entries to try and nothing recorded as connected, while
\* the radio has its link.
C20_Witness ==
  /\ StartupReturned
  /\ pre.status = "WL_CONNECTED"
  /\ pre.num >= 2
  /\ pre.connectedIndex = INDEX_DISCONNECTED
  /\ accessPointEnabled

====
